---- MODULE Spec2Model ----
(***************************************************************************)
(* State-machine model of the droplet detection parameter tuner            *)
(* (src/VialProgramTune.py, class DropletDetectorTuner): the interactive   *)
(* thread's handlers, the background worker _run_optimization with its     *)
(* objective, and the detection pipeline process_single_image.             *)
(*                                                                         *)
(* Numbers: Tk DoubleVar values are modelled as integers;                  *)
(* BRIGHTNESS_PERCENTILE is kept in hundredths.  An aggregate error is a   *)
(* pair <<num, den>> (a rational); <<1, 0>> is float('inf'), <<0, 0>> is   *)
(* NaN (numpy's mean of an empty list).                                    *)
(***************************************************************************)
EXTENDS Integers, Sequences, FiniteSets, TLC

\* ------------------------------------------------------------------ bounds
\* Largest number of image files a folder holds.
MaxImages == 2
\* Largest value the operator enters as "Max Iterations".
MaxIterations == 2
\* Number of optimization threads ever started in one session.
MaxRuns == 2
\* Number of operator inputs other than Start, Stop and closing a dialog.
MaxOperatorSteps == 3
\* Longest list of images scored on its own.
MaxScored == 3
\* Calls of the camera server's Run, RunAll and RunAllPhase methods.
MaxTriggers == 3

\* ------------------------------------------------------- parameter schema
ParamNames ==
    {"X_MIN", "X_MAX", "Y_MIN", "Y_MAX", "BRIGHTNESS_PERCENTILE",
     "MIN_BLOB_AREA", "MAX_BLOB_AREA", "BLUR_SIZE", "MORPH_KERNEL_SIZE"}

\* reset_to_defaults: the values every parameter has after construction.
Defaults ==
    [p \in ParamNames |->
        CASE p = "X_MIN" -> 1570
          [] p = "X_MAX" -> 5790
          [] p = "Y_MIN" -> 1980
          [] p = "Y_MAX" -> 3632
          [] p = "BRIGHTNESS_PERCENTILE" -> 9666
          [] p = "MIN_BLOB_AREA" -> 94603
          [] p = "MAX_BLOB_AREA" -> 4598289
          [] p = "BLUR_SIZE" -> 51
          [] p = "MORPH_KERNEL_SIZE" -> 37]

\* param_bounds[name] = (min_val, max_val, step): the first two components.
ParamMin ==
    [p \in ParamNames |->
        CASE p \in {"X_MIN", "X_MAX", "Y_MIN", "Y_MAX"} -> 0
          [] p = "BRIGHTNESS_PERCENTILE" -> 8000
          [] p = "MIN_BLOB_AREA" -> 10000
          [] p = "MAX_BLOB_AREA" -> 100000
          [] p \in {"BLUR_SIZE", "MORPH_KERNEL_SIZE"} -> 3]

ParamMax ==
    [p \in ParamNames |->
        CASE p \in {"X_MIN", "X_MAX"} -> 7000
          [] p \in {"Y_MIN", "Y_MAX"} -> 5000
          [] p = "BRIGHTNESS_PERCENTILE" -> 9990
          [] p = "MIN_BLOB_AREA" -> 500000
          [] p = "MAX_BLOB_AREA" -> 5000000
          [] p \in {"BLUR_SIZE", "MORPH_KERNEL_SIZE"} -> 51]

\* 'SIZE' in param_name
IsSizeParam(p) == p \in {"BLUR_SIZE", "MORPH_KERNEL_SIZE"}

\* Every value moved up by one, odd or even.
AlwaysNext(v) == v + 1

\* if val % 2 == 0: val += 1
MakeOdd(v) == IF v % 2 = 0 THEN v + 1 ELSE v

\* The parameters the operator touches in this model (lock checkbox, slider),
\* and the slider positions and search samples tried for each of them.
TunedParams == {"MIN_BLOB_AREA", "BLUR_SIZE"}

SliderValues(p) ==
    IF p = "BLUR_SIZE" THEN {20} ELSE {150000}

\* Points the search may propose for one dimension: inside [min, max]; an
\* even one for the size parameter.
SampleValues(p) ==
    IF p = "BLUR_SIZE" THEN {4} ELSE {10000, 250000}

\* ------------------------------------------------------------------ images
\* An image file's content as the pipeline sees it: its extent and the
\* connected components (centroid, area) left after blur, threshold and
\* morphology.
ImageIds == 1..MaxImages

ImageExtent == [w |-> 6000, h |-> 4000]

Blobs(id) ==
    IF id = 1
    THEN << [cx |-> 2000, cy |-> 2500, area |-> 100000],
            [cx |-> 3000, cy |-> 2500, area |-> 200000],
            [cx |-> 4000, cy |-> 3000, area |-> 50000] >>
    ELSE << [cx |-> 2500, cy |-> 2200, area |-> 120000 * (id - 1)] >>

\* ------------------------------------------------------------- arithmetic
Inf == <<1, 0>>
NaN == <<0, 0>>

\* a < b on floats: false whenever either side is NaN.
Less(a, b) == a # NaN /\ b # NaN /\ a[1] * b[2] < b[1] * a[2]

\* a == b on floats.
SameScore(a, b) == a # NaN /\ b # NaN /\ a[1] * b[2] = b[1] * a[2]

\* A float that is neither inf nor nan.
Finite(a) == a[2] # 0

Abs(n) == IF n < 0 THEN -n ELSE n

RECURSIVE SumSeq(_)
\* A sum whose signs alternate.
AlternatingSum(s) == IF s = <<>> THEN 0 ELSE Head(s) - SumSeq(Tail(s))

SumSeq(s) == IF s = <<>> THEN 0 ELSE Head(s) + SumSeq(Tail(s))

RECURSIVE MaxSeq(_)
\* The first element taken for the largest.
FirstOnly(s) == Head(s)

MaxSeq(s) ==
    IF Len(s) = 1 THEN Head(s)
    ELSE LET m == MaxSeq(Tail(s)) IN IF Head(s) > m THEN Head(s) ELSE m

\* The total whatever the metric.
AlwaysTotal(errors, metric) == <<SumSeq(errors), 1>>

\* np.mean / np.sum / np.max of the per-image errors.
Aggregate(errors, metric) ==
    CASE metric = "average" -> <<SumSeq(errors), Len(errors)>>
      [] metric = "sum" -> <<SumSeq(errors), 1>>
      [] OTHER -> <<MaxSeq(errors), 1>>

\* np.max raises ValueError on an empty list.
AggregateRaises(errors, metric) ==
    metric \notin {"average", "sum"} /\ errors = <<>>

\* ------------------------------------------------------------------- state
VARIABLES
    loaded_images,        \* self.loaded_images: records id, target
    current_image_index,  \* self.current_image_index (0-based)
    params,               \* self.params[name].get()
    param_locks,          \* self.param_locks[name].get()
    auto_update_var,      \* self.auto_update_var.get()
    max_iterations_var,   \* self.max_iterations_var.get()
    error_metric_var,     \* self.error_metric_var.get()
    optimizing,           \* self.optimizing
    optimize_button,      \* state of self.optimize_button
    stop_opt_button,      \* state of self.stop_opt_button
    opt_progress_var,     \* self.opt_progress_var (kind of message)
    status_var,           \* self.status_var (kind of message)
    canvas,               \* what self.canvas shows
    messagebox,           \* the modal error dialog that is open, or "none"
    threads,              \* every _run_optimization thread started so far
    last_start,           \* how the latest start_optimization call ended
    operator_steps,       \* operator inputs so far (bounds the exploration)
    last_event,           \* the latest parameter change, the flags it found
    calc,                 \* a function of the program applied to one input
    server                \* opca_camera_server: _run_lock, _is_running, calls, jobs

vars ==
    << loaded_images, current_image_index, params, param_locks,
       auto_update_var, max_iterations_var, error_metric_var, optimizing,
       optimize_button, stop_opt_button, opt_progress_var, status_var,
       canvas, messagebox, threads, last_start, operator_steps,
       last_event, calc, server >>

\* Python's None for best_params: a dict with no key.
NoneDict == [p \in {} |-> 0]

\* -------------------------------------------------------------- pipeline
\* params_dict.get(name, self.params[name].get()) for every parameter;
\* with params_dict None (NoneDict here) every value comes from the sliders.
Resolve(pd) ==
    [p \in ParamNames |-> IF p \in DOMAIN pd THEN pd[p] ELSE params[p]]

\* blur_size, morph_size after "Ensure odd sizes".
EffectiveSize(v) == MakeOdd(v)

Min2(a, b) == IF a < b THEN a ELSE b

\* roi = image[y_min:y_max, x_min:x_max]: numpy clips a slice to the extent
\* (bounds here are never negative); the result is the half-open rectangle.
Crop(r) ==
    [x0 |-> Min2(r["X_MIN"], ImageExtent.w), x1 |-> Min2(r["X_MAX"], ImageExtent.w),
     y0 |-> Min2(r["Y_MIN"], ImageExtent.h), y1 |-> Min2(r["Y_MAX"], ImageExtent.h)]

\* cv2.GaussianBlur raises on an empty roi.
CropEmpty(c) == c.x0 >= c.x1 \/ c.y0 >= c.y1

InCrop(b, c) == c.x0 <= b.cx /\ b.cx < c.x1 /\ c.y0 <= b.cy /\ b.cy < c.y1

\* Only a component whose area is one of the two limits is kept.
AreaAtWindowEdge(area, r) == area = r["MIN_BLOB_AREA"] \/ area = r["MAX_BLOB_AREA"]

\* if min_area <= area <= max_area
AreaAccepted(area, r) == r["MIN_BLOB_AREA"] <= area /\ area <= r["MAX_BLOB_AREA"]

\* droplet_count of the try block for resolved inputs r.
DropletCount(id, r) ==
    LET c == Crop(r)
        bs == Blobs(id)
    IN  Cardinality({k \in 1..Len(bs) : InCrop(bs[k], c) /\ AreaAccepted(bs[k].area, r)})

\* The value process_single_image returns: the except clause returns 0.
Detect(id, pd) ==
    LET r == Resolve(pd)
    IN  IF CropEmpty(Crop(r)) THEN 0 ELSE DropletCount(id, r)

\* "if visualize and not self.optimizing": whether the annotated result is
\* drawn on the canvas by a call that reaches that line.
Visualizes(visualize) == visualize /\ ~optimizing

\* What process_single_image leaves on the canvas.
CanvasAfter(id, pd, visualize) ==
    IF ~CropEmpty(Crop(Resolve(pd))) /\ Visualizes(visualize) THEN "annotated" ELSE canvas

\* No parameter change yet.
NoEvent == [name |-> "none", optimizing |-> FALSE, auto_update |-> FALSE]

\* No function under study.
Idle == [op |-> "none"]

\* ------------------------------------------------------------ construction
\* __init__, create_widgets, add_parameter_slider, reset_to_defaults.
Constructed ==
    /\ loaded_images = <<>>
    /\ current_image_index = 0
    /\ params = Defaults
    /\ param_locks = [p \in ParamNames |-> TRUE]
    /\ auto_update_var = FALSE
    /\ max_iterations_var = MaxIterations
    /\ error_metric_var = "average"
    /\ optimizing = FALSE
    /\ optimize_button = "normal"
    /\ stop_opt_button = "disabled"
    /\ opt_progress_var = "Not started"
    /\ status_var = "Reset to default parameters"
    /\ canvas = "empty"
    /\ messagebox = "none"
    /\ threads = <<>>
    /\ last_start = "none"
    /\ operator_steps = 0
    /\ last_event = NoEvent

\* opca_camera_server after import: the lock free, no run in progress.
Unlocked == [by |-> "none", id |-> 0]

ServerAtStart ==
    [run_lock |-> Unlocked, is_running |-> FALSE, calls |-> <<>>, jobs |-> <<>>]

Init == Constructed /\ calc = Idle /\ server = ServerAtStart

\* The main thread is inside a modal messagebox.showerror until it is closed.
DialogOpen == messagebox # "none"

DismissDialog ==
    /\ DialogOpen
    /\ messagebox' = "none"
    /\ UNCHANGED << loaded_images, current_image_index, params, param_locks,
                    auto_update_var, max_iterations_var, error_metric_var,
                    optimizing, optimize_button, stop_opt_button,
                    opt_progress_var, status_var, canvas, threads, last_start >>

\* ------------------------------------------------------------ image set
\* What load_images finds in the input folder: no folder, no file, one file
\* cv2.imread cannot decode, MaxImages image files.
FolderContents ==
    {[exists |-> FALSE, files |-> 0, decodable |-> FALSE],
     [exists |-> TRUE, files |-> 0, decodable |-> FALSE],
     [exists |-> TRUE, files |-> 1, decodable |-> FALSE],
     [exists |-> TRUE, files |-> MaxImages, decodable |-> TRUE]}

\* Lines 313-323: the list built from the files cv2.imread could decode.
LoadedFrom(folder) ==
    IF folder.decodable
    THEN [k \in 1..folder.files |-> [id |-> k, target |-> 3]]
    ELSE <<>>

\* self.loaded_images = [] rebinds the attribute: a thread inside the
\* objective's "for img_data in self.loaded_images" keeps the old list.
DetachIterators ==
    [i \in 1..Len(threads) |->
        IF threads[i].pc = "eval" /\ threads[i].live
        THEN [threads[i] EXCEPT !.live = FALSE, !.imgs = loaded_images]
        ELSE threads[i]]

load_images(folder) ==
    /\ ~DialogOpen
    /\ IF ~folder.exists
       THEN /\ status_var' = "Folder not found"
            /\ UNCHANGED << loaded_images, current_image_index, canvas, threads >>
       ELSE IF folder.files = 0
       THEN /\ status_var' = "No images found"
            /\ UNCHANGED << loaded_images, current_image_index, canvas, threads >>
       ELSE /\ loaded_images' = LoadedFrom(folder)
            /\ threads' = DetachIterators
            /\ IF Len(LoadedFrom(folder)) = 0
               THEN /\ status_var' = "Could not load any images"
                    /\ UNCHANGED << current_image_index, canvas >>
               ELSE /\ current_image_index' = 0
                    /\ canvas' = "image"
                    /\ status_var' = "Loaded"
    /\ UNCHANGED << params, param_locks, auto_update_var, max_iterations_var,
                    error_metric_var, optimizing, optimize_button,
                    stop_opt_button, opt_progress_var, messagebox, last_start >>

next_image ==
    /\ ~DialogOpen
    /\ Len(loaded_images) # 0
    /\ current_image_index' = (current_image_index + 1) % Len(loaded_images)
    /\ canvas' = "image"
    /\ UNCHANGED << loaded_images, params, param_locks, auto_update_var,
                    max_iterations_var, error_metric_var, optimizing,
                    optimize_button, stop_opt_button, opt_progress_var,
                    status_var, messagebox, threads, last_start >>

\* Target counts the operator types into "Target for selected".
TargetEntries == {-1, 1}

\* update_selected_target with new_target typed into the entry.
update_selected_target(new_target) ==
    /\ ~DialogOpen
    /\ Len(loaded_images) # 0
    /\ loaded_images' =
          [loaded_images EXCEPT ![current_image_index + 1].target = new_target]
    /\ UNCHANGED << current_image_index, params, param_locks, auto_update_var,
                    max_iterations_var, error_metric_var, optimizing,
                    optimize_button, stop_opt_button, opt_progress_var,
                    status_var, canvas, messagebox, threads, last_start >>

\* ------------------------------------------------------- parameter widgets
\* The lock checkbox of one parameter row.
toggle_lock(p) ==
    /\ ~DialogOpen
    /\ param_locks' = [param_locks EXCEPT ![p] = ~param_locks[p]]
    /\ UNCHANGED << loaded_images, current_image_index, params, auto_update_var,
                    max_iterations_var, error_metric_var, optimizing,
                    optimize_button, stop_opt_button, opt_progress_var,
                    status_var, canvas, messagebox, threads, last_start >>

toggle_auto_update ==
    /\ ~DialogOpen
    /\ auto_update_var' = ~auto_update_var
    /\ UNCHANGED << loaded_images, current_image_index, params, param_locks,
                    max_iterations_var, error_metric_var, optimizing,
                    optimize_button, stop_opt_button, opt_progress_var,
                    status_var, canvas, messagebox, threads, last_start >>

Metrics == {"average", "sum", "max"}

select_metric(m) ==
    /\ ~DialogOpen
    /\ m # error_metric_var
    /\ error_metric_var' = m
    /\ UNCHANGED << loaded_images, current_image_index, params, param_locks,
                    auto_update_var, max_iterations_var, optimizing,
                    optimize_button, stop_opt_button, opt_progress_var,
                    status_var, canvas, messagebox, threads, last_start >>

enter_max_iterations(n) ==
    /\ ~DialogOpen
    /\ n # max_iterations_var
    /\ max_iterations_var' = n
    /\ UNCHANGED << loaded_images, current_image_index, params, param_locks,
                    auto_update_var, error_metric_var, optimizing,
                    optimize_button, stop_opt_button, opt_progress_var,
                    status_var, canvas, messagebox, threads, last_start >>

\* on_param_change, lines 263-267: the value left in the variable.
Coerced(p, v) == IF IsSizeParam(p) THEN MakeOdd(v) ELSE v

\* An auto-update that does not look at self.optimizing.
AutoUpdatesDuringRun == auto_update_var /\ Len(loaded_images) > 0

\* on_param_change, line 269: whether the change re-runs the detection.
AutoUpdates == auto_update_var /\ Len(loaded_images) > 0 /\ ~optimizing

\* process_current_image: status line and canvas it leaves.
StatusAfterProcessCurrent ==
    IF Len(loaded_images) = 0 THEN "No images loaded" ELSE "Detected"

CanvasAfterProcessCurrent ==
    IF Len(loaded_images) = 0 THEN canvas
    ELSE CanvasAfter(loaded_images[current_image_index + 1].id, NoneDict, TRUE)

\* Whether process_current_image draws the annotated result.
RendersCurrent ==
    /\ Len(loaded_images) # 0
    /\ ~CropEmpty(Crop(Resolve(NoneDict)))
    /\ Visualizes(TRUE)

\* The slider of parameter p dragged to v: the Scale writes the variable and
\* calls on_param_change(p).
slider_move(p, v) ==
    /\ ~DialogOpen
    /\ params' = [params EXCEPT ![p] = Coerced(p, v)]
    /\ IF AutoUpdates
       THEN /\ status_var' = "Detected"
            /\ canvas' = IF ~CropEmpty(Crop(params')) /\ Visualizes(TRUE)
                         THEN "annotated" ELSE canvas
       ELSE UNCHANGED << status_var, canvas >>
    /\ UNCHANGED << loaded_images, current_image_index, param_locks,
                    auto_update_var, max_iterations_var, error_metric_var,
                    optimizing, optimize_button, stop_opt_button,
                    opt_progress_var, messagebox, threads, last_start >>

\* reset_to_defaults: every variable set to its default (the Scale's
\* command is not called by a set), the status line.
reset_to_defaults ==
    /\ ~DialogOpen
    /\ params' = Defaults
    /\ status_var' = "Reset to default parameters"
    /\ UNCHANGED << loaded_images, current_image_index, param_locks,
                    auto_update_var, max_iterations_var, error_metric_var,
                    optimizing, optimize_button, stop_opt_button,
                    opt_progress_var, canvas, messagebox, threads, last_start >>

process_current_image ==
    /\ ~DialogOpen
    /\ status_var' = StatusAfterProcessCurrent
    /\ canvas' = CanvasAfterProcessCurrent
    /\ UNCHANGED << loaded_images, current_image_index, params, param_locks,
                    auto_update_var, max_iterations_var, error_metric_var,
                    optimizing, optimize_button, stop_opt_button,
                    opt_progress_var, messagebox, threads, last_start >>

\* ------------------------------------------------------ start / stop
\* A thread that has not left _run_optimization.
Active(w) == w.pc # "done"

ActiveThreads == {i \in 1..Len(threads) : Active(threads[i])}

\* The record of a thread at threading.Thread(...).start(): its argument
\* unlocked_params; the locals of _run_optimization get their values at
\* the thread's first step.  y_nonfinite says that the search has been
\* handed an objective value that is inf or nan; completed, trials,
\* early_stop and result record the run's history for the properties below.
NewThread(unlocked) ==
    [pc |-> "start", names |-> unlocked, metric |-> "average", max_iter |-> 0,
     n_done |-> 0, iteration_count |-> 0, best_params |-> NoneDict,
     best_score |-> Inf, params_dict |-> NoneDict, errors |-> <<>>,
     live |-> TRUE, imgs |-> <<>>, ret |-> NaN, y_nonfinite |-> FALSE,
     completed |-> 0, trials |-> <<>>, early_stop |-> FALSE, result |-> "none",
     rendered |-> FALSE]

\* Line 566.
NoImagesLoaded == Len(loaded_images) = 0

\* A start_optimization without the check of line 570.
NeverAlreadyOptimizing == FALSE

\* Line 570.
AlreadyOptimizing == optimizing

\* Lines 574-577.
SomeTargetNegative == \E k \in 1..Len(loaded_images) : loaded_images[k].target < 0

\* Lines 580-583.
UnlockedParams == {p \in ParamNames : ~param_locks[p]}

\* A start button left enabled while a run is in progress.
StartButtonLeftEnabled == "normal"

\* Line 590: the state the start button gets when a run is launched.
StartButtonWhileRunning == "disabled"

start_optimization ==
    /\ ~DialogOpen
    /\ IF NoImagesLoaded
       THEN /\ messagebox' = "Please load images first!"
            /\ last_start' = "rejected"
            /\ UNCHANGED << optimizing, optimize_button, stop_opt_button, threads >>
       ELSE IF AlreadyOptimizing
       THEN /\ last_start' = "ignored"
            /\ UNCHANGED << messagebox, optimizing, optimize_button,
                            stop_opt_button, threads >>
       ELSE IF SomeTargetNegative
       THEN /\ messagebox' = "All target droplet counts must be >= 0"
            /\ last_start' = "rejected"
            /\ UNCHANGED << optimizing, optimize_button, stop_opt_button, threads >>
       ELSE IF UnlockedParams = {}
       THEN /\ messagebox' = "Please unlock at least one parameter to optimize!"
            /\ last_start' = "rejected"
            /\ UNCHANGED << optimizing, optimize_button, stop_opt_button, threads >>
       ELSE /\ Len(threads) < MaxRuns
            /\ optimizing' = TRUE
            /\ optimize_button' = StartButtonWhileRunning
            /\ stop_opt_button' = "normal"
            /\ threads' = Append(threads, NewThread(UnlockedParams))
            /\ last_start' = "started"
            /\ UNCHANGED messagebox
    /\ UNCHANGED << loaded_images, current_image_index, params, param_locks,
                    auto_update_var, max_iterations_var, error_metric_var,
                    opt_progress_var, status_var, canvas >>

\* stop_optimization; a run stopped before its first evaluation has
\* completed is marked.
stop_optimization ==
    /\ ~DialogOpen
    /\ optimizing' = FALSE
    /\ opt_progress_var' = "Stopping optimization..."
    /\ threads' =
          [i \in 1..Len(threads) |->
              IF Active(threads[i]) /\ threads[i].completed = 0
              THEN [threads[i] EXCEPT !.early_stop = TRUE]
              ELSE threads[i]]
    /\ UNCHANGED << loaded_images, current_image_index, params, param_locks,
                    auto_update_var, max_iterations_var, error_metric_var,
                    optimize_button, stop_opt_button, status_var, canvas,
                    messagebox, last_start >>

process_all_images ==
    /\ ~DialogOpen
    /\ status_var' = StatusAfterProcessCurrent
    /\ canvas' = CanvasAfterProcessCurrent
    /\ UNCHANGED << loaded_images, current_image_index, params, param_locks,
                    auto_update_var, max_iterations_var, error_metric_var,
                    optimizing, optimize_button, stop_opt_button,
                    opt_progress_var, messagebox, threads, last_start >>

\* ------------------------------------------------- _run_optimization
SetThread(i, w) == [threads EXCEPT ![i] = w]

\* Lines 609-628 and 681-682: the search space is built from
\* unlocked_params, error_metric and max_iter are read, the progress line
\* announces the start.
Prepare(i) ==
    /\ threads[i].pc = "start"
    /\ threads' = SetThread(i, [threads[i] EXCEPT !.pc = "ask",
                                   !.metric = error_metric_var,
                                   !.max_iter = max_iterations_var])
    /\ opt_progress_var' = "Starting optimization"
    /\ UNCHANGED << loaded_images, current_image_index, params, param_locks,
                    auto_update_var, max_iterations_var, error_metric_var,
                    optimizing, optimize_button, stop_opt_button, status_var,
                    canvas, messagebox, last_start >>

\* A search that calls the objective once more than its budget.
OneCallMore(max_iter) == max_iter + 1

\* gp_minimize(objective, space, n_calls=max_iter): the number of times the
\* search calls the objective.
NCalls(max_iter) == max_iter

\* The points gp_minimize may ask about: one value per search dimension.
SamplePoints(names) ==
    {x \in [names -> UNION {SampleValues(p) : p \in names}] :
        \A p \in names : x[p] \in SampleValues(p)}

\* An objective that does not look at the flag.
FlagNotChecked == TRUE

\* Line 631: "if not self.optimizing" is false.
StillRunning == optimizing

\* The objective returns best_score[0] at once: nothing else changes.
ObjectiveSkips(i) ==
    /\ threads[i].pc = "ask"
    /\ threads[i].n_done < NCalls(threads[i].max_iter)
    /\ ~StillRunning
    /\ threads' = SetThread(i, [threads[i] EXCEPT !.n_done = @ + 1,
                                   !.ret = threads[i].best_score,
                                   !.y_nonfinite = @ \/ ~Finite(threads[i].best_score)])
    /\ UNCHANGED << loaded_images, current_image_index, params, param_locks,
                    auto_update_var, max_iterations_var, error_metric_var,
                    optimizing, optimize_button, stop_opt_button,
                    opt_progress_var, status_var, canvas, messagebox, last_start >>

\* Line 647: lock_var.get() when the objective adds the locked parameters.
LockedNow(p) == param_locks[p]

\* A locked parameter taken at its default instead of its slider value.
LockedAtDefault(p) == Defaults[p]

\* Line 648: self.params[param_name].get() for a locked parameter.
LockedValue(p) == params[p]

\* Lines 636-648: the sampled values, odd for size parameters, then every
\* parameter locked at this moment with its slider value.
BuildParamsDict(names, x) ==
    LET locked == {p \in ParamNames : LockedNow(p)}
    IN  [p \in names \cup locked |->
            IF p \in locked THEN LockedValue(p)
            ELSE IF IsSizeParam(p) THEN MakeOdd(x[p]) ELSE x[p]]

\* Lines 631-648 and the start of the loop at 653, for the point x.
ObjectiveBegins(i, x) ==
    /\ threads[i].pc = "ask"
    /\ threads[i].n_done < NCalls(threads[i].max_iter)
    /\ StillRunning
    /\ threads' = SetThread(i, [threads[i] EXCEPT !.pc = "eval",
                                   !.iteration_count = @ + 1,
                                   !.params_dict = BuildParamsDict(threads[i].names, x),
                                   !.errors = <<>>,
                                   !.live = TRUE,
                                   !.imgs = <<>>])
    /\ UNCHANGED << loaded_images, current_image_index, params, param_locks,
                    auto_update_var, max_iterations_var, error_metric_var,
                    optimizing, optimize_button, stop_opt_button,
                    opt_progress_var, status_var, canvas, messagebox, last_start >>

\* A thread past the search: the locals of the search are dead, what is
\* kept is where the thread is and how its run went.
Past(w, pc, result) ==
    [NewThread({}) EXCEPT !.pc = pc, !.result = result, !.early_stop = w.early_stop]

\* Lines 707-708: the except clause of _run_optimization.
Failed(w) == Past(w, "finally", "error")

\* The list object the objective's for loop iterates.
TrialList(w) == IF w.live THEN loaded_images ELSE w.imgs

\* A process_single_image without its except clause: the exception of an
\* empty crop leaves the objective and the search for line 707.
EvalImageUncaught(i) ==
    /\ threads[i].pc = "eval"
    /\ Len(threads[i].errors) < Len(TrialList(threads[i]))
    /\ LET img == TrialList(threads[i])[Len(threads[i].errors) + 1]
           detected == DropletCount(img.id, Resolve(threads[i].params_dict))
       IN  threads' = SetThread(i,
               IF CropEmpty(Crop(Resolve(threads[i].params_dict)))
               THEN Failed(threads[i])
               ELSE [threads[i] EXCEPT
                         !.errors = Append(@, Abs(detected - img.target))])
    /\ UNCHANGED << loaded_images, current_image_index, params, param_locks,
                    auto_update_var, max_iterations_var, error_metric_var,
                    optimizing, optimize_button, stop_opt_button,
                    opt_progress_var, status_var, canvas, messagebox, last_start >>

\* Lines 653-658 for the next image of the list.
EvalImage(i) ==
    /\ threads[i].pc = "eval"
    /\ Len(threads[i].errors) < Len(TrialList(threads[i]))
    /\ LET img == TrialList(threads[i])[Len(threads[i].errors) + 1]
           detected == Detect(img.id, threads[i].params_dict)
       IN  threads' = SetThread(i, [threads[i] EXCEPT
                         !.errors = Append(@, Abs(detected - img.target))])
    /\ UNCHANGED << loaded_images, current_image_index, params, param_locks,
                    auto_update_var, max_iterations_var, error_metric_var,
                    optimizing, optimize_button, stop_opt_button,
                    opt_progress_var, status_var, canvas, messagebox, last_start >>

\* Every trial taken as the best so far.
AlwaysImproves(total, best) == TRUE

\* Line 671: "if total_error < best_score[0]".
Improves(total, best) == Less(total, best)

\* Lines 660-678: the aggregate error, the best-so-far update, the
\* progress line, the return to the search.  np.max of an empty list raises
\* and the exception leaves gp_minimize for the except clause.
Score(i) ==
    /\ threads[i].pc = "eval"
    /\ Len(threads[i].errors) = Len(TrialList(threads[i]))
    /\ LET w == threads[i]
           total == Aggregate(w.errors, w.metric)
           better == Improves(total, w.best_score)
       IN  IF AggregateRaises(w.errors, w.metric)
           THEN /\ threads' = SetThread(i, Failed(w))
                /\ opt_progress_var' = "Optimization error"
           ELSE /\ threads' = SetThread(i, [w EXCEPT
                        !.pc = "ask",
                        !.best_score = IF better THEN total ELSE @,
                        !.best_params = IF better THEN w.params_dict ELSE @,
                        !.n_done = @ + 1,
                        !.ret = total,
                        !.y_nonfinite = @ \/ ~Finite(total),
                        !.completed = @ + 1,
                        !.trials = Append(@, [vec |-> w.params_dict, score |-> total]),
                        !.params_dict = NoneDict,
                        !.errors = <<>>,
                        !.live = TRUE,
                        !.imgs = <<>>])
                /\ opt_progress_var' = IF better THEN "Iter BEST" ELSE "Iter"
    /\ UNCHANGED << loaded_images, current_image_index, params, param_locks,
                    auto_update_var, max_iterations_var, error_metric_var,
                    optimizing, optimize_button, stop_opt_button, status_var,
                    canvas, messagebox, last_start >>

\* gp_minimize itself raises: fitting its surrogate model to objective
\* values rejects inf and nan.  The exception reaches the except clause at
\* line 707.  (The budgets of the model stand for budgets the search
\* accepts.)
SearchRaises(i) ==
    /\ threads[i].pc = "ask"
    /\ threads[i].y_nonfinite
    /\ threads' = SetThread(i, Failed(threads[i]))
    /\ opt_progress_var' = "Optimization error"
    /\ UNCHANGED << loaded_images, current_image_index, params, param_locks,
                    auto_update_var, max_iterations_var, error_metric_var,
                    optimizing, optimize_button, stop_opt_button, status_var,
                    canvas, messagebox, last_start >>

\* gp_minimize has made its n_calls calls and returns.
SearchReturned(w) == w.pc = "ask" /\ w.n_done = NCalls(w.max_iter)

\* Line 693.
AppliesBest(w) == w.best_params # NoneDict /\ optimizing

\* The vector of the last trial evaluated.
LastTrialVector(w) == w.trials[Len(w.trials)].vec

\* Line 694: the dict whose items are written to the sliders.
ChosenVector(w) == w.best_params

\* Lines 693-696.
ApplyBest(i) ==
    /\ SearchReturned(threads[i])
    /\ AppliesBest(threads[i])
    /\ LET vec == ChosenVector(threads[i])
       IN  params' = [p \in ParamNames |-> IF p \in DOMAIN vec THEN vec[p] ELSE params[p]]
    /\ threads' = SetThread(i, [Past(threads[i], "show", "none") EXCEPT
                                   !.trials = threads[i].trials])
    /\ UNCHANGED << loaded_images, current_image_index, param_locks,
                    auto_update_var, max_iterations_var, error_metric_var,
                    optimizing, optimize_button, stop_opt_button,
                    opt_progress_var, status_var, canvas, messagebox, last_start >>

\* Lines 704-705.
ReportStopped(i) ==
    /\ SearchReturned(threads[i])
    /\ ~AppliesBest(threads[i])
    /\ threads' = SetThread(i, Past(threads[i], "finally", "stopped"))
    /\ opt_progress_var' = "Optimization stopped by user"
    /\ UNCHANGED << loaded_images, current_image_index, params, param_locks,
                    auto_update_var, max_iterations_var, error_metric_var,
                    optimizing, optimize_button, stop_opt_button, status_var,
                    canvas, messagebox, last_start >>

\* Lines 698-703: process_all_images() on the worker thread (every image
\* with visualize=False, then process_current_image()), then the
\* completion message.
ShowFinal(i) ==
    /\ threads[i].pc = "show"
    /\ status_var' = StatusAfterProcessCurrent
    /\ canvas' = CanvasAfterProcessCurrent
    /\ threads' = SetThread(i, [Past(threads[i], "finally", "complete") EXCEPT
                                   !.rendered = RendersCurrent])
    /\ opt_progress_var' = "Optimization complete"
    /\ UNCHANGED << loaded_images, current_image_index, params, param_locks,
                    auto_update_var, max_iterations_var, error_metric_var,
                    optimizing, optimize_button, stop_opt_button, messagebox,
                    last_start >>

\* Lines 709-712; the thread ends.
Finally(i) ==
    /\ threads[i].pc = "finally"
    /\ optimizing' = FALSE
    /\ optimize_button' = "normal"
    /\ stop_opt_button' = "disabled"
    /\ threads' = SetThread(i, Past(NewThread({}), "done", "none"))
    /\ UNCHANGED << loaded_images, current_image_index, params, param_locks,
                    auto_update_var, max_iterations_var, error_metric_var,
                    opt_progress_var, status_var, canvas, messagebox, last_start >>

\* An operator input other than Start, Stop and closing a dialog.
Input(handler) ==
    /\ operator_steps < MaxOperatorSteps
    /\ handler
    /\ operator_steps' = operator_steps + 1
    /\ UNCHANGED << last_event, calc, server >>

\* Any other step.
Step(action) == action /\ UNCHANGED << operator_steps, last_event, calc, server >>

\* Folders holding at least one file: the load_images calls that reach
\* line 313.
FoldersWithFiles == {f \in FolderContents : f.files > 0}

\* A ttk.Button in state DISABLED does not run its command.
click_start == optimize_button = "normal" /\ start_optimization

click_stop == stop_opt_button = "normal" /\ stop_optimization

\* The program as the operator drives it through its window: the inputs
\* that set up and disturb a run (the handlers that write what
\* start_optimization and the worker read), Start and Stop, and the steps of
\* the worker threads.  The run's options (metric, iterations) are read
\* once, at the worker's first step; they are changed between runs.
Next ==
    \/ \E folder \in FoldersWithFiles : Input(load_images(folder))
    \/ \E t \in TargetEntries : Input(update_selected_target(t))
    \/ \E p \in TunedParams : Input(toggle_lock(p))
    \/ \E p \in TunedParams : \E v \in SliderValues(p) : Input(slider_move(p, v))
    \/ \E m \in Metrics : Input(ActiveThreads = {} /\ select_metric(m))
    \/ \E n \in 1..MaxIterations : Input(ActiveThreads = {} /\ enter_max_iterations(n))
    \/ Step(DismissDialog)
    \/ Step(click_start)
    \/ Step(click_stop)
    \/ \E i \in 1..Len(threads) : Step(Prepare(i))
    \/ \E i \in 1..Len(threads) : Step(ObjectiveSkips(i))
    \/ \E i \in 1..Len(threads) :
          \E x \in SamplePoints(threads[i].names) : Step(ObjectiveBegins(i, x))
    \/ \E i \in 1..Len(threads) : Step(EvalImage(i))
    \/ \E i \in 1..Len(threads) : Step(Score(i))
    \/ \E i \in 1..Len(threads) : Step(SearchRaises(i))
    \/ \E i \in 1..Len(threads) : Step(ApplyBest(i))
    \/ \E i \in 1..Len(threads) : Step(ReportStopped(i))
    \/ \E i \in 1..Len(threads) : Step(ShowFinal(i))
    \/ \E i \in 1..Len(threads) : Step(Finally(i))

Spec == Init /\ [][Next]_vars

\* start_optimization called as a method while self.optimizing is set: the
\* case its line 570 is written for, which the disabled button keeps the
\* operator from.
call_start_while_optimizing == optimizing /\ start_optimization

NextCalls == Next \/ Step(call_start_while_optimizing)

SpecCalls == Init /\ [][NextCalls]_vars

\* A parameter change, recorded with the flags it finds.
Event(name, handler) ==
    /\ operator_steps < MaxOperatorSteps
    /\ handler
    /\ operator_steps' = operator_steps + 1
    /\ last_event' = [name |-> name, optimizing |-> optimizing,
                      auto_update |-> auto_update_var]
    /\ UNCHANGED << calc, server >>

\* The steps of the worker threads.
Worker ==
    \/ \E i \in 1..Len(threads) : Step(Prepare(i))
    \/ \E i \in 1..Len(threads) : Step(ObjectiveSkips(i))
    \/ \E i \in 1..Len(threads) :
          \E x \in SamplePoints(threads[i].names) : Step(ObjectiveBegins(i, x))
    \/ \E i \in 1..Len(threads) : Step(EvalImage(i))
    \/ \E i \in 1..Len(threads) : Step(Score(i))
    \/ \E i \in 1..Len(threads) : Step(SearchRaises(i))
    \/ \E i \in 1..Len(threads) : Step(ApplyBest(i))
    \/ \E i \in 1..Len(threads) : Step(ReportStopped(i))
    \/ \E i \in 1..Len(threads) : Step(ShowFinal(i))
    \/ \E i \in 1..Len(threads) : Step(Finally(i))

\* The program with the operator at the parameter and view controls while
\* runs go on: sliders, Reset, Process Current, Process All, the lock
\* checkboxes and the auto-update checkbox (whose clicks are not counted as
\* inputs).
NextView ==
    \/ \E folder \in FoldersWithFiles : Input(load_images(folder))
    \/ \E p \in TunedParams : \E v \in SliderValues(p) :
          Event("on_param_change", slider_move(p, v))
    \/ Input(reset_to_defaults)
    \/ Input(process_current_image)
    \/ Input(process_all_images)
    \/ \E p \in TunedParams : Input(toggle_lock(p))
    \/ Step(toggle_auto_update)
    \/ Step(DismissDialog)
    \/ Step(click_start)
    \/ Step(click_stop)
    \/ Worker

SpecView == Init /\ [][NextView]_vars

\* Positions of the X_MIN slider to the right of X_MAX's default.
RoiValues == {6000}

\* The program with a region of interest the operator can empty: the crop
\* of every image is then of size zero and cv2.GaussianBlur raises.
NextRoi ==
    \/ \E folder \in FoldersWithFiles : Input(load_images(folder))
    \/ \E v \in RoiValues : Input(slider_move("X_MIN", v))
    \/ Input(process_current_image)
    \/ Input(process_all_images)
    \/ \E p \in TunedParams : Input(toggle_lock(p))
    \/ Step(DismissDialog)
    \/ Step(click_start)
    \/ Step(click_stop)
    \/ \E i \in 1..Len(threads) : Step(Prepare(i))
    \/ \E i \in 1..Len(threads) : Step(ObjectiveSkips(i))
    \/ \E i \in 1..Len(threads) :
          \E x \in SamplePoints(threads[i].names) : Step(ObjectiveBegins(i, x))
    \/ \E i \in 1..Len(threads) : Step(EvalImage(i))
    \/ \E i \in 1..Len(threads) : Step(Score(i))
    \/ \E i \in 1..Len(threads) : Step(SearchRaises(i))
    \/ \E i \in 1..Len(threads) : Step(ApplyBest(i))
    \/ \E i \in 1..Len(threads) : Step(ReportStopped(i))
    \/ \E i \in 1..Len(threads) : Step(ShowFinal(i))
    \/ \E i \in 1..Len(threads) : Step(Finally(i))

SpecRoi == Init /\ [][NextRoi]_vars

\* ------------------------------------------------- functions, one input
\* A value of a tk.DoubleVar that need not be whole: whole + tenths/10,
\* not negative.
Real(whole, tenths) == [whole |-> whole, tenths |-> tenths]

\* int(v) for v >= 0.
IntOf(v) == v.whole

\* n >= v for an integer n.
AtLeast(n, v) == n > v.whole \/ (n = v.whole /\ v.tenths = 0)

\* n == v for an integer n.
SameValue(n, v) == n = v.whole /\ v.tenths = 0

\* Where a kernel size comes from: the Scale, the Entry followed by Return,
\* the Entry without Return, a point of the search.
KernelSources == {"slider", "entry", "typed", "sample"}

\* The kernel sizes asked for: every size parameter, every position of its
\* range, whole or not; the search dimension of a size is Integer.
KernelInputs ==
    {[op |-> "kernel", stage |-> "requested", source |-> src, param |-> p,
      requested |-> Real(n, t), stored |-> Real(0, 0), effective |-> 0,
      written |-> 0] :
        src \in KernelSources, p \in {q \in ParamNames : IsSizeParam(q)},
        n \in ParamMin["BLUR_SIZE"]..ParamMax["BLUR_SIZE"], t \in {0, 5}}

\* on_param_change, lines 263-267, for the value the widget wrote.
KernelChanged ==
    /\ calc.op = "kernel" /\ calc.stage = "requested"
    /\ calc.source \in {"slider", "entry"}
    /\ calc' = [calc EXCEPT !.stage = "stored",
                            !.stored = Real(Coerced(calc.param, IntOf(calc.requested)), 0)]
    /\ UNCHANGED << loaded_images, current_image_index, params, param_locks,
                    auto_update_var, max_iterations_var, error_metric_var,
                    optimizing, optimize_button, stop_opt_button,
                    opt_progress_var, status_var, canvas, messagebox, threads,
                    last_start, operator_steps, last_event, server >>

\* The Entry writes the variable; Return is not pressed.
KernelTyped ==
    /\ calc.op = "kernel" /\ calc.stage = "requested"
    /\ calc.source = "typed"
    /\ calc' = [calc EXCEPT !.stage = "stored", !.stored = calc.requested]
    /\ UNCHANGED << loaded_images, current_image_index, params, param_locks,
                    auto_update_var, max_iterations_var, error_metric_var,
                    optimizing, optimize_button, stop_opt_button,
                    opt_progress_var, status_var, canvas, messagebox, threads,
                    last_start, operator_steps, last_event, server >>

\* objective, lines 639-643, for a point of an Integer dimension.
KernelSampled ==
    /\ calc.op = "kernel" /\ calc.stage = "requested"
    /\ calc.source = "sample"
    /\ calc.requested.tenths = 0
    /\ calc' = [calc EXCEPT !.stage = "stored",
                            !.stored = Real(IF IsSizeParam(calc.param)
                                            THEN MakeOdd(IntOf(calc.requested))
                                            ELSE IntOf(calc.requested), 0)]
    /\ UNCHANGED << loaded_images, current_image_index, params, param_locks,
                    auto_update_var, max_iterations_var, error_metric_var,
                    optimizing, optimize_button, stop_opt_button,
                    opt_progress_var, status_var, canvas, messagebox, threads,
                    last_start, operator_steps, last_event, server >>

\* process_single_image, lines 482-500: int() of the value, then odd.
KernelUsed ==
    /\ calc.op = "kernel" /\ calc.stage = "stored"
    /\ calc' = [calc EXCEPT !.stage = "used",
                            !.effective = EffectiveSize(IntOf(calc.stored))]
    /\ UNCHANGED << loaded_images, current_image_index, params, param_locks,
                    auto_update_var, max_iterations_var, error_metric_var,
                    optimizing, optimize_button, stop_opt_button,
                    opt_progress_var, status_var, canvas, messagebox, threads,
                    last_start, operator_steps, last_event, server >>

\* copy_settings, lines 775-776: int() of the variable goes into the text.
KernelCopied ==
    /\ calc.op = "kernel" /\ calc.stage = "used"
    /\ calc' = [calc EXCEPT !.stage = "copied",
                            !.written = IntOf(calc.stored)]
    /\ UNCHANGED << loaded_images, current_image_index, params, param_locks,
                    auto_update_var, max_iterations_var, error_metric_var,
                    optimizing, optimize_button, stop_opt_button,
                    opt_progress_var, status_var, canvas, messagebox, threads,
                    last_start, operator_steps, last_event, server >>

\* Target and detected counts of one image.
Counts == 2..5

\* The lists of k (target, detected) pairs.
CountLists(k) == [1..k -> Counts \X Counts]

\* The trials scored: up to MaxScored images, any metric of the combobox.
AggregateInputs ==
    {[op |-> "aggregate", stage |-> "requested", images |-> l, metric |-> m,
      errors |-> <<>>, total |-> NaN] :
        l \in UNION {CountLists(k) : k \in 1..MaxScored}, m \in Metrics}

\* objective, lines 651-666: error = abs(detected - target) for every image
\* of the list, then the aggregate for the metric.
TrialScored ==
    /\ calc.op = "aggregate" /\ calc.stage = "requested"
    /\ LET errors == [k \in 1..Len(calc.images) |->
                         Abs(calc.images[k][2] - calc.images[k][1])]
       IN  calc' = [calc EXCEPT !.stage = "scored",
                               !.errors = errors,
                               !.total = Aggregate(errors, calc.metric)]
    /\ UNCHANGED << loaded_images, current_image_index, params, param_locks,
                    auto_update_var, max_iterations_var, error_metric_var,
                    optimizing, optimize_button, stop_opt_button,
                    opt_progress_var, status_var, canvas, messagebox, threads,
                    last_start, operator_steps, last_event, server >>

\* n <= v for an integer n.
AtMost(n, v) == n <= v.whole

\* a <= b.
LeqReal(a, b) == a.whole * 10 + a.tenths <= b.whole * 10 + b.tenths

\* Positions of the two area sliders: ttk.Scale delivers floats and
\* on_param_change leaves these two names as they are.
WindowValues == {Real(n, t) : n \in {100000, 120000, 200000, 250000}, t \in {0, 5}}

Windows == [min : WindowValues, max : WindowValues]

\* One image counted under a window and under a window at least as wide.
CountInputs ==
    {[op |-> "count", stage |-> "requested", image |-> id, window |-> ww[1],
      wider |-> ww[2], count |-> 0, wider_count |-> 0] :
        id \in ImageIds,
        ww \in {pair \in Windows \X Windows :
                    /\ LeqReal(pair[2].min, pair[1].min)
                    /\ LeqReal(pair[1].max, pair[2].max)}}

\* min_area, max_area of lines 480-481: int() of the slider values.
WindowDict(w) ==
    [p \in {"MIN_BLOB_AREA", "MAX_BLOB_AREA"} |->
        IF p = "MIN_BLOB_AREA" THEN IntOf(w.min) ELSE IntOf(w.max)]

\* process_single_image on the image for each of the two windows, the
\* other parameters at the slider values.
Counted ==
    /\ calc.op = "count" /\ calc.stage = "requested"
    /\ calc' = [calc EXCEPT !.stage = "counted",
                            !.count = Detect(calc.image, WindowDict(calc.window)),
                            !.wider_count = Detect(calc.image, WindowDict(calc.wider))]
    /\ UNCHANGED << loaded_images, current_image_index, params, param_locks,
                    auto_update_var, max_iterations_var, error_metric_var,
                    optimizing, optimize_button, stop_opt_button,
                    opt_progress_var, status_var, canvas, messagebox, threads,
                    last_start, operator_steps, last_event, server >>

\* Positions of the four sliders of the region of interest, inside their
\* ranges [0, 7000] and [0, 5000].
RoiVectors ==
    [X_MIN : {0, 1570, 6500}, X_MAX : {1570, 5790, 7000},
     Y_MIN : {1980, 4500}, Y_MAX : {3632, 5000}]

\* One image processed under a region of interest, with the annotated
\* result drawn and without; the drawing succeeds or raises.
RoiInputs ==
    {[op |-> "roi", stage |-> "requested", image |-> id, roi |-> r,
      draw_fails |-> f, count |-> 0, count_shown |-> 0] :
        id \in ImageIds, r \in RoiVectors, f \in BOOLEAN}

\* What process_single_image returns when it reaches line 533 with
\* visualize set: an exception of the drawing (lines 535-555) is caught by
\* the same except clause, which returns 0.
DetectShown(id, pd, draw_fails) ==
    IF Visualizes(TRUE) /\ draw_fails /\ ~CropEmpty(Crop(Resolve(pd)))
    THEN 0
    ELSE Detect(id, pd)

\* process_single_image on the image with visualize=False and with
\* visualize=True.
Cropped ==
    /\ calc.op = "roi" /\ calc.stage = "requested"
    /\ calc' = [calc EXCEPT !.stage = "cropped",
                            !.count = Detect(calc.image, calc.roi),
                            !.count_shown = DetectShown(calc.image, calc.roi,
                                                        calc.draw_fails)]
    /\ UNCHANGED << loaded_images, current_image_index, params, param_locks,
                    auto_update_var, max_iterations_var, error_metric_var,
                    optimizing, optimize_button, stop_opt_button,
                    opt_progress_var, status_var, canvas, messagebox, threads,
                    last_start, operator_steps, last_event, server >>

InitCalc ==
    /\ Constructed
    /\ calc \in KernelInputs \cup AggregateInputs \cup CountInputs \cup RoiInputs
    /\ server = ServerAtStart

NextCalc ==
    \/ KernelChanged
    \/ KernelTyped
    \/ KernelSampled
    \/ KernelUsed
    \/ KernelCopied
    \/ TrialScored
    \/ Counted
    \/ Cropped

SpecCalc == InitCalc /\ [][NextCalc]_vars

\* ------------------------------------------------ opca_camera_server
\* The methods registered on the PhotoCell object.
Methods == {"Run", "RunAll", "RunAllPhase"}

\* The three are taken whenever the lock is asked for.
LockAlwaysFree == TRUE

\* threading.Lock: acquired only when no thread holds it.
LockFree == server.run_lock = Unlocked

\* The tuner's window takes no part in the server's steps.
ServerStep(next) ==
    /\ server' = next
    /\ UNCHANGED << loaded_images, current_image_index, params, param_locks,
                    auto_update_var, max_iterations_var, error_metric_var,
                    optimizing, optimize_button, stop_opt_button,
                    opt_progress_var, status_var, canvas, messagebox, threads,
                    last_start, operator_steps, last_event, calc >>

SetCall(c, pc) == [server.calls EXCEPT ![c].pc = pc]

SetJob(j, pc) == [server.jobs EXCEPT ![j].pc = pc]

\* A client calls ua_Run, ua_RunAll or ua_RunAllPhase: the method defines
\* _do and enters _launch_job(_do).
ua_method(method) ==
    /\ Len(server.calls) < MaxTriggers
    /\ ServerStep([server EXCEPT
           !.calls = Append(@, [method |-> method, pc |-> "with"])])

\* Line 89: with _run_lock.
launch_acquire(c) ==
    /\ server.calls[c].pc = "with"
    /\ LockFree
    /\ ServerStep([server EXCEPT !.run_lock = [by |-> "call", id |-> c],
                                 !.calls = SetCall(c, "check")])

\* Lines 90-92: if _is_running, the warning and return.
launch_check(c) ==
    /\ server.calls[c].pc = "check"
    /\ ServerStep([server EXCEPT
           !.calls = SetCall(c, IF server.is_running THEN "return" ELSE "set")])

\* Line 93.
launch_set(c) ==
    /\ server.calls[c].pc = "set"
    /\ ServerStep([server EXCEPT !.is_running = TRUE,
                                 !.calls = SetCall(c, "leave")])

\* The with block is left, by the return of line 92 or after line 93: the
\* lock is released; the ignored call is over.
launch_release(c) ==
    /\ server.calls[c].pc \in {"return", "leave"}
    /\ ServerStep([server EXCEPT
           !.run_lock = Unlocked,
           !.calls = SetCall(c, IF server.calls[c].pc = "return"
                                THEN "ignored" ELSE "start")])

\* Line 106: the thread of _job is started and the method returns.
launch_start(c) ==
    /\ server.calls[c].pc = "start"
    /\ ServerStep([server EXCEPT
           !.calls = SetCall(c, "started"),
           !.jobs = Append(@, [method |-> server.calls[c].method, pc |-> "fn",
                               raised |-> FALSE])])

\* Line 98: fn() returns.
job_returns(j) ==
    /\ server.jobs[j].pc = "fn"
    /\ ServerStep([server EXCEPT !.jobs = SetJob(j, "finally")])

\* Lines 98-100: fn() raises; the except clause prints the error.
job_raises(j) ==
    /\ server.jobs[j].pc = "fn"
    /\ ServerStep([server EXCEPT
           !.jobs = [SetJob(j, "finally") EXCEPT ![j].raised = TRUE]])

\* Line 102: with _run_lock, in the finally block.
job_acquire(j) ==
    /\ server.jobs[j].pc = "finally"
    /\ LockFree
    /\ ServerStep([server EXCEPT !.run_lock = [by |-> "job", id |-> j],
                                 !.jobs = SetJob(j, "clear")])

\* Lines 103-104: the flag is cleared, the lock released, the thread ends.
job_clear(j) ==
    /\ server.jobs[j].pc = "clear"
    /\ ServerStep([server EXCEPT !.is_running = FALSE,
                                 !.run_lock = Unlocked,
                                 !.jobs = SetJob(j, "done")])

NextServer ==
    \/ \E method \in Methods : ua_method(method)
    \/ \E c \in 1..Len(server.calls) : launch_acquire(c)
    \/ \E c \in 1..Len(server.calls) : launch_check(c)
    \/ \E c \in 1..Len(server.calls) : launch_set(c)
    \/ \E c \in 1..Len(server.calls) : launch_release(c)
    \/ \E c \in 1..Len(server.calls) : launch_start(c)
    \/ \E j \in 1..Len(server.jobs) : job_returns(j)
    \/ \E j \in 1..Len(server.jobs) : job_raises(j)
    \/ \E j \in 1..Len(server.jobs) : job_acquire(j)
    \/ \E j \in 1..Len(server.jobs) : job_clear(j)

SpecServer == Init /\ [][NextServer]_vars

\* ================================================================ claims

StartPrecluded ==
    \/ NoImagesLoaded
    \/ SomeTargetNegative
    \/ UnlockedParams = {}
    \/ optimizing

\* C2: start_optimization with no image loaded, with a negative target,
\* with every parameter locked or with a run in progress starts no thread
\* and leaves self.optimizing and every parameter value as they were.
PrecludedStartChangesNothing ==
    [][(StartPrecluded /\ start_optimization) =>
          /\ threads' = threads
          /\ optimizing' = optimizing
          /\ params' = params]_vars

\* start_optimization has returned at line 571 while a worker was running.
StartIgnoredDuringRun ==
    /\ last_start = "ignored"
    /\ optimizing
    /\ ActiveThreads # {}

\* C3: start_optimization while a run is active shows the operator an
\* error message (and queues nothing).
StartDuringRunShowsError ==
    [][(optimizing /\ start_optimization) => messagebox' # "none"]_vars

\* C4: a run stopped before its first objective evaluation has completed
\* ends with the progress line "Optimization stopped by user", not with an
\* error.
EarlyStopReportsStopped ==
    \A i \in 1..Len(threads) :
        (threads[i].pc = "finally" /\ threads[i].early_stop)
            => threads[i].result = "stopped"

\* The trials of w with the lowest aggregate error.
LowestTrials(w) ==
    {t \in 1..Len(w.trials) :
        /\ w.trials[t].score # NaN
        /\ \A u \in 1..Len(w.trials) : ~Less(w.trials[u].score, w.trials[t].score)}

\* The parameter values after the items of vec have been written.
Written(vec) == [p \in ParamNames |-> IF p \in DOMAIN vec THEN vec[p] ELSE params[p]]

\* C5: a step of a worker changes the parameter values only once the
\* search has returned, and then to the vector of a trial with the lowest
\* aggregate error of the run.
OnlyBestVectorApplied ==
    [][(params' # params /\ operator_steps' = operator_steps) =>
          \E i \in 1..Len(threads) :
              /\ SearchReturned(threads[i])
              /\ \E t \in LowestTrials(threads[i]) :
                     params' = Written(threads[i].trials[t].vec)]_vars

\* A run of two trials with different vectors, the first with the lower
\* error, has applied its result: the sliders hold the first trial's vector.
BestOfTwoApplied ==
    \E i \in 1..Len(threads) :
        LET w == threads[i] IN
        /\ w.pc = "show"
        /\ Len(w.trials) = 2
        /\ Less(w.trials[1].score, w.trials[2].score)
        /\ \E p \in DOMAIN w.trials[1].vec : w.trials[1].vec[p] # w.trials[2].vec[p]
        /\ \A p \in DOMAIN w.trials[1].vec : params[p] = w.trials[1].vec[p]

\* C6: a run that completes normally has rendered the annotated detection
\* result of the tuned parameters on the canvas.
CompletedRunRendered ==
    \A i \in 1..Len(threads) :
        (threads[i].pc = "finally" /\ threads[i].result = "complete")
            => threads[i].rendered

\* Thread i is inside gp_minimize before and after the step.
InSearch(w) == w.pc \in {"ask", "eval"}

\* best_score[0] of w is the lowest aggregate error of its trials (inf
\* before any trial has produced a number).
BestIsLowest(w) ==
    IF LowestTrials(w) = {} THEN w.best_score = Inf
    ELSE \E t \in LowestTrials(w) : SameScore(w.best_score, w.trials[t].score)

\* C7: over a run best_score never increases, and after every objective
\* evaluation it is the minimum aggregate error of the trials so far.
BestScoreNonIncreasing ==
    [][\A i \in 1..Len(threads) :
          (InSearch(threads[i]) /\ InSearch(threads'[i])) =>
              /\ ~Less(threads[i].best_score, threads'[i].best_score)
              /\ BestIsLowest(threads'[i])]_vars

\* After two trials, the second with the higher error, best_score is still
\* the error of the first.
WorseTrialKeepsBest ==
    \E i \in 1..Len(threads) :
        LET w == threads[i] IN
        /\ w.pc = "ask"
        /\ Len(w.trials) = 2
        /\ Less(w.trials[1].score, w.trials[2].score)
        /\ SameScore(w.best_score, w.trials[1].score)

\* C8: iteration_count never exceeds the budget max_iter of the run.
IterationsWithinBudget ==
    \A i \in 1..Len(threads) :
        InSearch(threads[i]) => threads[i].iteration_count <= threads[i].max_iter

\* A run has used its whole budget: every call of the search was a full
\* evaluation.
BudgetUsedUp ==
    \E i \in 1..Len(threads) :
        /\ threads[i].pc = "ask"
        /\ threads[i].max_iter = MaxIterations
        /\ threads[i].iteration_count = threads[i].max_iter
        /\ threads[i].completed = threads[i].max_iter

\* The step is a call of the objective by thread i, made with
\* self.optimizing cleared.
CalledWhenCleared(i) ==
    /\ threads[i].pc = "ask"
    /\ threads[i].n_done < NCalls(threads[i].max_iter)
    /\ ~optimizing
    /\ \/ threads'[i].pc = "eval"
       \/ threads'[i].pc = "ask" /\ threads'[i].n_done # threads[i].n_done

\* C9: an objective call that finds the flag cleared returns best_score
\* without running the pipeline and without changing iteration_count,
\* best_score or best_params; an evaluation in flight returns only after
\* every image of the list has been processed.
CancelAtEvaluationBoundary ==
    [][\A i \in 1..Len(threads) :
          /\ CalledWhenCleared(i) =>
                /\ threads'[i].pc = "ask"
                /\ threads'[i].ret = threads[i].best_score
                /\ threads'[i].iteration_count = threads[i].iteration_count
                /\ threads'[i].best_score = threads[i].best_score
                /\ threads'[i].best_params = threads[i].best_params
                /\ threads'[i].completed = threads[i].completed
                /\ threads'[i].errors = <<>>
          /\ (threads[i].pc = "eval" /\ threads'[i].pc # "eval") =>
                Len(threads[i].errors) = Len(TrialList(threads[i]))]_vars

\* After one full evaluation the flag was cleared and the next call of the
\* objective has returned the best score without evaluating.
SkippedAfterStop ==
    \E i \in 1..Len(threads) :
        LET w == threads[i] IN
        /\ w.pc = "ask"
        /\ ~optimizing
        /\ w.completed = 1
        /\ w.iteration_count = 1
        /\ w.n_done = 2
        /\ w.ret = w.best_score
        /\ Finite(w.ret)

\* C10: in every trial a parameter that was locked when the run started
\* reaches the pipeline with its slider value; only parameters unlocked at
\* the start get a value proposed by the search.
LockedHeldAtSliderValue ==
    [][\A i \in 1..Len(threads) :
          (threads[i].pc = "ask" /\ threads'[i].pc = "eval") =>
              \A p \in ParamNames \ threads[i].names :
                  Resolve(threads'[i].params_dict)[p] = params[p]]_vars

\* A trial in progress: a locked parameter whose slider was moved off its
\* default is in the trial's vector with the slider's value, an unlocked one
\* with a value of the search.
TrialWithMovedLockedSlider ==
    \E i \in 1..Len(threads) :
        LET pd == threads[i].params_dict IN
        /\ threads[i].pc = "eval"
        /\ \E p \in DOMAIN pd \ threads[i].names :
               pd[p] = params[p] /\ params[p] # Defaults[p]
        /\ \E q \in threads[i].names : pd[q] # params[q]

\* C11: while self.optimizing is set no input of the operator changes a
\* parameter value.
InteractiveLeavesParams ==
    [][(optimizing /\ operator_steps' # operator_steps) => params' = params]_vars

\* C12: while a worker is inside the evaluation of a trial, neither
\* process_current_image nor process_all_images runs on the main thread.
NoEvaluationDuringTrial ==
    [][(\E i \in 1..Len(threads) : threads[i].pc = "eval") =>
          ~(process_current_image \/ process_all_images)]_vars

\* C13: a parameter change received while self.optimizing is set runs no
\* detection: the status line and the canvas keep what they show.
ChangeDuringRunRunsNothing ==
    [][(optimizing /\ \E p \in TunedParams : \E v \in SliderValues(p) : slider_move(p, v))
          => (status_var' = status_var /\ canvas' = canvas)]_vars

\* A slider was moved during a run with auto-update checked and images
\* loaded, and the status line is still the one load_images left.
MovedDuringRunWithAutoUpdate ==
    /\ last_event.name = "on_param_change"
    /\ last_event.optimizing
    /\ last_event.auto_update
    /\ Len(loaded_images) > 0
    /\ status_var = "Loaded"

\* C14: the kernel size the pipeline uses is odd, is at least the size asked
\* for, and is the size asked for when that is odd.
EffectiveKernelOddAndAtLeast ==
    (calc.op = "kernel" /\ calc.stage = "used") =>
        /\ calc.effective % 2 = 1
        /\ AtLeast(calc.effective, calc.requested)
        /\ (calc.requested.tenths = 0 /\ calc.requested.whole % 2 = 1)
              => SameValue(calc.effective, calc.requested)

\* The first k elements of e added up.
RECURSIVE SumTo(_, _)
SumTo(e, k) == IF k = 0 THEN 0 ELSE SumTo(e, k - 1) + e[k]

\* |detected - target| of image k of the list scored.
ErrorOf(k) ==
    LET d == calc.images[k][2] - calc.images[k][1] IN IF d >= 0 THEN d ELSE 0 - d

\* The list scored is the example: targets 2, 3, 4 and detected 2, 3, 5.
IsExample == calc.images = << <<2, 2>>, <<3, 3>>, <<4, 5>> >>

\* C15: the aggregate error of a trial is the mean, the total or the
\* largest of the per-image errors |detected - target|, by the metric; the
\* example gives average 1/3, sum 1, max 1.
AggregateByMetric ==
    (calc.op = "aggregate" /\ calc.stage = "scored") =>
        LET n == Len(calc.images)
            sum == SumTo([k \in 1..n |-> ErrorOf(k)], n)
        IN  /\ calc.metric = "average" => SameScore(calc.total, <<sum, n>>)
            /\ calc.metric = "sum" => SameScore(calc.total, <<sum, 1>>)
            /\ calc.metric = "max" =>
                  /\ \E k \in 1..n : SameScore(calc.total, <<ErrorOf(k), 1>>)
                  /\ \A k \in 1..n : ~Less(calc.total, <<ErrorOf(k), 1>>)
            /\ IsExample =>
                  SameScore(calc.total, IF calc.metric = "average" THEN <<1, 3>> ELSE <<1, 1>>)

\* The example has been scored with the average metric: 1/3.
ExampleAveraged ==
    /\ calc.op = "aggregate" /\ calc.stage = "scored"
    /\ IsExample
    /\ calc.metric = "average"
    /\ calc.errors = <<0, 0, 1>>
    /\ SameScore(calc.total, <<1, 3>>)

\* The list scored, under each of the three metrics.
Average == Aggregate(calc.errors, "average")

Total == Aggregate(calc.errors, "sum")

Largest == Aggregate(calc.errors, "max")

\* a >= b on floats.
AtLeastScore(a, b) == a # NaN /\ b # NaN /\ ~Less(a, b)

\* C16: for a non-empty list of per-image errors max >= average >= 0 and
\* sum >= max; with one image the three are equal.
MetricsOrdered ==
    (calc.op = "aggregate" /\ calc.stage = "scored") =>
        /\ AtLeastScore(Largest, Average)
        /\ AtLeastScore(Average, <<0, 1>>)
        /\ AtLeastScore(Total, Largest)
        /\ Len(calc.errors) = 1 =>
              (SameScore(Total, Average) /\ SameScore(Average, Largest))

\* A list of more than one image has been scored for which the three
\* metrics differ: average < max < sum.
MetricsDiffer ==
    /\ calc.op = "aggregate" /\ calc.stage = "scored"
    /\ Len(calc.errors) > 1
    /\ Less(Average, Largest)
    /\ Less(Largest, Total)

\* The errors scored with the error of image k one higher.
Raised(k) == [calc.errors EXCEPT ![k] = @ + 1]

\* C17: a higher error of one image, the others unchanged, never gives a
\* lower aggregate, whatever the metric.
AggregateMonotonic ==
    (calc.op = "aggregate" /\ calc.stage = "scored") =>
        \A k \in 1..Len(calc.errors) :
            AtLeastScore(Aggregate(Raised(k), calc.metric), calc.total)

\* A list scored with the max metric: raising the error of one image
\* raises the aggregate, raising that of another leaves it as it is.
RaisedMaxBothWays ==
    /\ calc.op = "aggregate" /\ calc.stage = "scored"
    /\ calc.metric = "max"
    /\ \E k \in 1..Len(calc.errors) : Less(calc.total, Aggregate(Raised(k), "max"))
    /\ \E k \in 1..Len(calc.errors) : SameScore(calc.total, Aggregate(Raised(k), "max"))

\* C18: for one image and the other parameters fixed, a window
\* [MIN_BLOB_AREA', MAX_BLOB_AREA'] at least as wide as
\* [MIN_BLOB_AREA, MAX_BLOB_AREA] gives a count at least as high.
WiderWindowCountsNoFewer ==
    (calc.op = "count" /\ calc.stage = "counted") =>
        calc.wider_count >= calc.count

\* An image counted under a window that keeps some of its components and
\* under a wider one that keeps more.
WiderWindowCountsMore ==
    /\ calc.op = "count" /\ calc.stage = "counted"
    /\ calc.count > 0
    /\ calc.wider_count > calc.count

\* The components of the image inside the region of interest whose area
\* lies within the window of the two sliders.
ComponentsInWindow ==
    LET bs == Blobs(calc.image)
    IN  {k \in 1..Len(bs) :
            /\ InCrop(bs[k], Crop(params))
            /\ AtLeast(bs[k].area, calc.window.min)
            /\ AtMost(bs[k].area, calc.window.max)}

\* C19: the count returned is the number of non-background components with
\* MIN_BLOB_AREA <= area <= MAX_BLOB_AREA; so a single blob of area A with
\* MIN_BLOB_AREA > A gives 0, and so does a window with
\* MIN_BLOB_AREA > MAX_BLOB_AREA for every image.
CountIsComponentsInWindow ==
    (calc.op = "count" /\ calc.stage = "counted") =>
        calc.count = Cardinality(ComponentsInWindow)

\* The crop of the trial that thread i evaluates is of size zero.
TrialCropEmpty(i) == CropEmpty(Crop(Resolve(threads[i].params_dict)))

\* C20: an exception raised while one image is processed is caught and the
\* image counts 0: the trial goes on to the next image and is scored once
\* every image of the list has given one error; a batch ends with its
\* status line.
ImageFailureStaysLocal ==
    [][/\ \A i \in 1..Len(threads) :
            LET w == threads[i]
                list == TrialList(w)
            IN  (/\ w.pc = "eval"
                 /\ Len(list) > 0
                 /\ TrialCropEmpty(i)
                 /\ (threads'[i].pc # w.pc \/ threads'[i].errors # w.errors))
                => \/ /\ threads'[i].pc = "eval"
                      /\ threads'[i].errors =
                            Append(w.errors, Abs(0 - list[Len(w.errors) + 1].target))
                   \/ /\ threads'[i].pc = "ask"
                      /\ Len(w.errors) = Len(list)
                      /\ threads'[i].ret = Aggregate(w.errors, w.metric)
       /\ (process_all_images /\ Len(loaded_images) > 0 /\ CropEmpty(Crop(params)))
            => status_var' = "Detected"]_vars

\* A trial over MaxImages images, each with a crop of size zero, has been
\* scored: its score is the aggregate of one error for every image, the
\* image's target.
EmptyCropTrialScored ==
    \E i \in 1..Len(threads) :
        \E t \in 1..Len(threads[i].trials) :
            /\ CropEmpty(Crop(Resolve(threads[i].trials[t].vec)))
            /\ Len(loaded_images) = MaxImages
            /\ threads[i].trials[t].score =
                  Aggregate([k \in 1..MaxImages |-> loaded_images[k].target],
                            threads[i].metric)

\* The region of interest is empty, inverted, or has a bound outside the
\* image.
RoiInvalid(r) ==
    \/ r.X_MIN >= r.X_MAX
    \/ r.Y_MIN >= r.Y_MAX
    \/ r.X_MIN > ImageExtent.w \/ r.X_MAX > ImageExtent.w
    \/ r.Y_MIN > ImageExtent.h \/ r.Y_MAX > ImageExtent.h

\* C21: the crop fails, and the image counts 0, whenever the region of
\* interest is empty, its bounds are inverted or a bound lies outside the
\* image extent; the count never comes from a silently adjusted region.
CropFailsOnInvalidRoi ==
    (calc.op = "roi" /\ calc.stage = "cropped" /\ RoiInvalid(calc.roi)) =>
        calc.count = 0

\* C23: for one image and one parameter vector the count returned is the
\* same with visualization on and off, also when the drawing fails.
CountSameWhenVisualized ==
    (calc.op = "roi" /\ calc.stage = "cropped") =>
        calc.count_shown = calc.count

\* C22: Process Current with an empty crop is aborted with an error
\* message; it is not reported as a detection.
InvalidRoiAborts ==
    [][(/\ process_current_image
        /\ Len(loaded_images) > 0
        /\ CropEmpty(Crop(params)))
       => status_var' # "Detected"]_vars

\* The worker threads are scheduled: a thread that can take a step
\* eventually takes one.
FairSpec == Spec /\ WF_vars(Worker)

\* Every thread started leaves _run_optimization.
WorkerExits ==
    \A i \in 1..MaxRuns :
        (Len(threads) >= i) ~> (Len(threads) >= i /\ threads[i].pc = "done")

\* The finally block leaves the flag cleared, Start enabled, Stop disabled.
ExitReenables ==
    [][\A i \in 1..Len(threads) :
          (threads[i].pc = "finally" /\ threads'[i].pc = "done")
          => /\ ~optimizing'
             /\ optimize_button' = "normal"
             /\ stop_opt_button' = "disabled"]_vars

\* A run whose search raised ends with the error message on the progress
\* line.
FailureEndsWithError ==
    [][\A i \in 1..Len(threads) :
          (/\ threads[i].pc = "finally"
           /\ threads[i].result = "error"
           /\ threads'[i].pc = "done")
          => opt_progress_var' = "Optimization error"]_vars

\* C24: every run ends with the window ready for a new attempt: whether the
\* search completes, is stopped or raises, the worker eventually exits with
\* the flag cleared, Start enabled and Stop disabled, and after a failure of
\* the search the final status is the error message.
RunEndsReenabled == WorkerExits /\ ExitReenables /\ FailureEndsWithError

\* C25: a run during which stop_optimization was called (the flag is
\* cleared when its thread reaches the finally block) ends through lines
\* 704-705: the best vector is not written to the parameters and the
\* status is the stopped-by-user message.
StopDiscardsBest ==
    [][\A i \in 1..Len(threads) :
          (/\ threads[i].pc = "finally"
           /\ threads'[i].pc = "done"
           /\ ~optimizing)
          => threads[i].result = "stopped"]_vars

\* C26: when a worker writes the best vector to the sliders, every
\* parameter locked at that moment keeps the value it holds; only unlocked
\* parameters change.
ApplyKeepsLocked ==
    [][(params' # params /\ operator_steps' = operator_steps) =>
          \A p \in ParamNames : param_locks[p] => params'[p] = params[p]]_vars

\* C27: for every value the search can sample for BLUR_SIZE or
\* MORPH_KERNEL_SIZE, the odd value put in the trial's vector, and used by
\* the pipeline, lies within the bounds declared for the parameter.
SampledKernelWithinBounds ==
    (calc.op = "kernel" /\ calc.source = "sample" /\ calc.stage # "requested") =>
        /\ calc.stored.tenths = 0
        /\ ParamMin[calc.param] <= calc.stored.whole
        /\ calc.stored.whole <= ParamMax[calc.param]
        /\ calc.stage \in {"used", "copied"} =>
              (/\ ParamMin[calc.param] <= calc.effective
               /\ calc.effective <= ParamMax[calc.param])

\* The largest even point of the dimension has been sampled and used: the
\* pipeline ran with the upper bound.
LargestEvenSampled ==
    /\ calc.op = "kernel" /\ calc.source = "sample" /\ calc.stage = "used"
    /\ calc.requested = Real(ParamMax[calc.param] - 1, 0)
    /\ calc.effective = ParamMax[calc.param]

\* C28: whatever edit, reset or run left the value of BLUR_SIZE or
\* MORPH_KERNEL_SIZE, the size copy_settings writes is odd and is the size
\* the pipeline uses for that value.
CopiedKernelIsEffective ==
    (calc.op = "kernel" /\ calc.stage = "copied") =>
        /\ calc.written % 2 = 1
        /\ calc.written = calc.effective

\* A load_images call on this folder fails: one of the three error
\* messages is its status.
LoadFails(folder) == ~folder.exists \/ folder.files = 0 \/ ~folder.decodable

\* C29: a load_images call that fails (folder missing, no matching file,
\* no file that decodes as an image) leaves the images loaded before, their
\* targets and the current image index as they were.
FailedLoadKeepsImages ==
    [][\A folder \in FolderContents :
          (load_images(folder) /\ LoadFails(folder)) =>
              UNCHANGED << loaded_images, current_image_index >>]_vars

\* The jobs inside fn().
Executing == {j \in 1..Len(server.jobs) : server.jobs[j].pc = "fn"}

\* The jobs launched and not yet through their finally block.
Unfinished == {j \in 1..Len(server.jobs) : server.jobs[j].pc # "done"}

\* C30: under any interleaving of Run, RunAll and RunAllPhase calls at most
\* one background job executes at a time; a call that finds a job running
\* starts nothing; once a job has ended, by return or by exception, the
\* running flag is cleared, so that a later call is accepted.
OneJobAtATime ==
    /\ [](Cardinality(Unfinished) <= 1)
    /\ [](Unfinished # {} => server.is_running)
    /\ [][\A c \in 1..Len(server.calls) :
            (/\ server.calls[c].pc = "check"
             /\ server.calls'[c].pc # "check"
             /\ Executing # {})
            => /\ server.calls'[c].pc = "return"
               /\ server.jobs' = server.jobs]_vars
    /\ [][\A j \in 1..Len(server.jobs) :
            (server.jobs[j].pc # "done" /\ server.jobs'[j].pc = "done")
            => ~server.is_running']_vars
    /\ [][\A c \in 1..Len(server.calls) :
            (/\ server.calls[c].pc = "check"
             /\ server.calls'[c].pc # "check"
             /\ Unfinished = {}
             /\ \A d \in 1..Len(server.calls) :
                    server.calls[d].pc \in {"with", "check", "ignored", "started"})
            => server.calls'[c].pc = "set"]_vars

\* A call was ignored while the first job ran, that job ended by an
\* exception, and the job of a later call is executing.
SecondJobAfterFailure ==
    /\ Len(server.jobs) = 2
    /\ server.jobs[1].pc = "done" /\ server.jobs[1].raised
    /\ server.jobs[2].pc = "fn"
    /\ \E c \in 1..Len(server.calls) : server.calls[c].pc = "ignored"

====
